---- MODULE Spec2Model ----
(***************************************************************************)
(* Model of the terminal layer of repline/isocline (term.c as bundled in   *)
(* src/src/common.h): buffered output, the direct write path (POSIX strip  *)
(* variant and Windows console emulation variant), raw mode, and the       *)
(* terminal dimension probe.                                               *)
(*                                                                         *)
(* Bytes are modelled as one-character strings ("ESC" stands for \x1B), a  *)
(* C string as a sequence of bytes.  Positions are 0-based as in the C     *)
(* code, so byte i of s is s[i+1].                                         *)
(***************************************************************************)
EXTENDS Integers, Sequences, FiniteSets, TLC

VARIABLES plat,    \* "posix" or "win": which side of #if defined(_WIN32) is built
          term,    \* struct term_s
          con,     \* the Windows console behind term->hcon
          ansi,    \* the ANSI terminal + tty behind term->fout (POSIX)
          out,     \* physical writes (write(2) / WriteConsoleA calls) of the last call
          ret,     \* return value of the last call
          last,    \* the last call: its name and what it observed on entry
          cyc,     \* bookkeeping of the current begin/end buffering cycle
          rawg,    \* bookkeeping of the current enter/exit raw mode pair
          frame    \* the running term_write_direct loop: input, pos, progress

vars == <<plat, term, con, ansi, out, ret, last, cyc, rawg, frame>>

-----------------------------------------------------------------------------
(* Bounds of the model *)

\* number of write calls inside one buffering cycle
MaxWrites == 2
\* largest repeat count passed to a formatted cursor helper
MaxArg == 1
\* number of units concatenated into an input of the strip specification
MaxUnits == 2
\* length of the inputs of the write loop specification
MaxLoopLen == 3

-----------------------------------------------------------------------------
(* Bytes and strings *)

ESC == "ESC"

Digits == {"0","1","2","3","4","5","6","7","8","9"}

DigitVal(c) ==
  CASE c = "0" -> 0 [] c = "1" -> 1 [] c = "2" -> 2 [] c = "3" -> 3
    [] c = "4" -> 4 [] c = "5" -> 5 [] c = "6" -> 6 [] c = "7" -> 7
    [] c = "8" -> 8 [] c = "9" -> 9

DigitChar(d) == <<"0","1","2","3","4","5","6","7","8","9">>[d + 1]

\* bytes below ' ' (control characters) that occur in the model
CtrlBytes == {ESC, "\r", "\n"}

\* UTF-8 continuation bytes that occur in the model (0x80..0xBF)
ContBytes == {"x80"}

\* s[from .. from+n-1], 0-based
Sub(s, from, n) == SubSeq(s, from + 1, from + n)

\* the element of a one element set.  An operator that uses the result of a
\* call more than once binds it as x \in {call}: the call is evaluated once.
The(S) == CHOOSE x \in S : TRUE

RECURSIVE Flatten(_)
Flatten(ss) == IF ss = <<>> THEN <<>> ELSE Head(ss) \o Flatten(Tail(ss))

RP_CSI == <<ESC, "[">>

-----------------------------------------------------------------------------
(* libc: sscanf and printf conversions *)

RECURSIVE ScanDigits(_, _, _)
\* the maximal run of digits of s from 0-based position i: [val, n] (n digits)
ScanDigits(s, i, acc) ==
  IF i < Len(s) /\ s[i + 1] \in Digits
    THEN ScanDigits(s, i + 1, [val |-> acc.val * 10 + DigitVal(s[i + 1]), n |-> acc.n + 1])
    ELSE acc

RECURSIVE SkipSpace(_, _)
SkipSpace(s, i) == IF i < Len(s) /\ s[i + 1] = " " THEN SkipSpace(s, i + 1) ELSE i

\* one %d / %zd conversion of sscanf at position i: optional white space, an
\* optional sign, digits.  [ok, val, pos]
ScanInt(s, i) ==
  The({ The({ The({ [ok  |-> d.n > 0,
                     val |-> IF k > j /\ s[j + 1] = "-" THEN 0 - d.val ELSE d.val,
                     pos |-> k + d.n] :
                    d \in {ScanDigits(s, k, [val |-> 0, n |-> 0])} }) :
              k \in {IF j < Len(s) /\ s[j + 1] \in {"-", "+"} THEN j + 1 ELSE j} }) :
        j \in {SkipSpace(s, i)} })

\* sscanf(s, "%zd", &n) with n preset to def
sscanf1(s, def) ==
  The({ [cnt |-> IF r.ok THEN 1 ELSE 0, n |-> IF r.ok THEN r.val ELSE def] :
        r \in {ScanInt(s, 0)} })

\* the second conversion of "%zd;%zd": only after a first one followed by ';'
ScanSecond(s, r1) ==
  IF r1.ok /\ r1.pos < Len(s) /\ s[r1.pos + 1] = ";"
    THEN ScanInt(s, r1.pos + 1)
    ELSE [ok |-> FALSE, val |-> 0, pos |-> 0]

\* sscanf(s, "%zd;%zd", p1, p2) with both preset to def
sscanf2(s, def1, def2) ==
  The({ The({ [cnt |-> IF ~r1.ok THEN 0 ELSE IF r2.ok THEN 2 ELSE 1,
               p1  |-> IF r1.ok THEN r1.val ELSE def1,
               p2  |-> IF r2.ok THEN r2.val ELSE def2] :
              r2 \in {ScanSecond(s, r1)} }) :
        r1 \in {ScanInt(s, 0)} })

RECURSIVE FormatNat(_)
FormatNat(n) == IF n < 10 THEN <<DigitChar(n)>> ELSE FormatNat(n \div 10) \o <<DigitChar(n % 10)>>

\* printf %d / %zd
FormatInt(n) == IF n < 0 THEN <<"-">> \o FormatNat(0 - n) ELSE FormatNat(n)

\* the formats passed to term_writef in this file, applied to their arguments
vprintf(fmt, args) ==
  CASE fmt = "%zdD"   -> RP_CSI \o FormatInt(args[1]) \o <<"D">>
    [] fmt = "%zdC"   -> RP_CSI \o FormatInt(args[1]) \o <<"C">>
    [] fmt = "%zdA"   -> RP_CSI \o FormatInt(args[1]) \o <<"A">>
    [] fmt = "%zdB"   -> RP_CSI \o FormatInt(args[1]) \o <<"B">>
    [] fmt = "%dm"    -> RP_CSI \o FormatInt(args[1]) \o <<"m">>
    [] fmt = "%d;%dH" -> RP_CSI \o FormatInt(args[1]) \o <<";">> \o FormatInt(args[2]) \o <<"H">>

-----------------------------------------------------------------------------
(* Collaborators: the character boundary scanner and the byte buffer *)

ParamBytes == Digits \cup {";", "?"}

\* final bytes of a CSI sequence ('@'..'~'): the letters
FinalBytes ==
  {"A","B","C","D","E","F","G","H","I","J","K","L","M","N","O","P","Q","R","S","T",
   "U","V","W","X","Y","Z","a","b","c","d","e","f","g","h","i","j","k","l","m","n",
   "o","p","q","r","s","t","u","v","w","x","y","z"}

RECURSIVE SkipParams(_, _)
SkipParams(s, i) == IF i < Len(s) /\ s[i + 1] \in ParamBytes THEN SkipParams(s, i + 1) ELSE i

RECURSIVE SkipCont(_, _)
SkipCont(s, i) == IF i < Len(s) /\ s[i + 1] \in ContBytes THEN SkipCont(s, i + 1) ELSE i

\* str_next_ofs(s, len, pos, true, NULL): the length of the unit at pos, a whole
\* CSI sequence ESC '[' params final, or one character; 0 at the end
str_next_ofs(s, len, pos) ==
  IF pos >= len THEN 0
  ELSE IF s[pos + 1] = ESC /\ pos + 1 < len /\ s[pos + 2] = "["
    THEN The({ IF e < len /\ s[e + 1] \in FinalBytes THEN e + 1 - pos ELSE 1 :
                 e \in {SkipParams(s, pos + 2)} })
    ELSE SkipCont(s, pos + 1) - pos

\* stringbuf_t* : NULL, or an allocated buffer with its bytes
NullBuf == [alloc |-> FALSE, data |-> <<>>]

\* sbuf_new: a fresh empty buffer, or NULL when the allocator fails
sbuf_new(alloc_ok) == IF alloc_ok THEN [alloc |-> TRUE, data |-> <<>>] ELSE NullBuf

\* sbuf_append_n / sbuf_append_vprintf: append the bytes (nothing on NULL)
sbuf_append_n(buf, s) == IF buf.alloc THEN [buf EXCEPT !.data = @ \o s] ELSE buf

sbuf_len(buf) == Len(buf.data)

sbuf_string(buf) == buf.data

sbuf_clear(buf) == IF buf.alloc THEN [buf EXCEPT !.data = <<>>] ELSE buf

-----------------------------------------------------------------------------
(* The environment of a call.                                              *)
(* A "world" w threads the state through the C calls of one entry point:   *)
(*   w.plat, w.t (struct term_s), w.con, w.ansi, w.out, and the behaviour  *)
(*   of the OS during the call: w.io (write(2)/WriteConsoleA succeed) and  *)
(*   w.mem (the allocator succeeds).                                       *)
(***************************************************************************)

\* size of the ANSI terminal behind fout, and of the Windows console buffer
TermRows == 2
TermCols == 3

Positions == [row : 1..TermRows, col : 1..TermCols]

Clamp(v, lo, hi) == IF v < lo THEN lo ELSE IF v > hi THEN hi ELSE v

\* the cursor position report ESC [ row ; col R
CursorReport(row, col) == RP_CSI \o FormatInt(row) \o <<";">> \o FormatInt(col) \o <<"R">>

\* replies that are not a cursor position report: another final byte, a third
\* field, no column, or an unrelated byte
OtherReply(how, row, col) ==
  CASE how = "badend" -> RP_CSI \o FormatInt(row) \o <<";">> \o FormatInt(col) \o <<"X">>
    [] how = "extra"  -> RP_CSI \o FormatInt(row) \o <<";">> \o FormatInt(col)
                           \o <<";", "7", "R">>
    [] how = "short"  -> RP_CSI \o FormatInt(row) \o <<"R">>
    [] how = "bad"    -> <<"x">>
    [] OTHER          -> <<>>

\* the ANSI terminal receives one unit u of output
AnsiUnit(a, u) ==
  IF u = RP_CSI \o <<"6", "n">>
    THEN \* device status report: answer as planned for this query
         The({ [a EXCEPT !.plan = IF a.plan = <<>> THEN <<>> ELSE Tail(a.plan),
                         !.inq = CASE how = "ok" -> @ \o CursorReport(a.row, a.col)
                                   [] OTHER      -> @ \o OtherReply(how, a.row, a.col),
                         !.sent = IF how = "ok" THEN Append(@, [row |-> a.row, col |-> a.col])
                                  ELSE @] :
               how \in {IF a.plan = <<>> THEN "none" ELSE Head(a.plan)} })
  ELSE IF Len(u) > 2 /\ SubSeq(u, 1, 2) = RP_CSI /\ u[Len(u)] = "H"
    THEN The({ [a EXCEPT !.row = Clamp(p.p1, 1, TermRows), !.col = Clamp(p.p2, 1, TermCols)] :
               p \in {sscanf2(Sub(u, 2, Len(u) - 2), 1, 1)} })
  ELSE a

RECURSIVE AnsiFeed(_, _, _)
\* the ANSI terminal receives the bytes s[pos..]
AnsiFeed(a, s, pos) ==
  The({ IF n <= 0 THEN a ELSE AnsiFeed(AnsiUnit(a, Sub(s, pos, n)), s, pos + n) :
        n \in {str_next_ofs(s, Len(s), pos)} })

\* tty_readc_noblock: the next byte the terminal sent, if any
tty_readc_noblock(w) ==
  IF w.ansi.inq = <<>> THEN [w |-> w, ret |-> FALSE, c |-> ""]
  ELSE [w |-> [w EXCEPT !.ansi.inq = Tail(@)], ret |-> TRUE, c |-> Head(w.ansi.inq)]

-----------------------------------------------------------------------------
(* POSIX: write directly to the terminal *)

\* term_write_console: one write(2) on term->fout
term_write_console(w, s) ==
  [w   |-> [w EXCEPT !.out = Append(@, s),
                     !.ansi = IF w.io THEN AnsiFeed(@, s, 0) ELSE @],
   ret |-> w.io]

IsColorCode_normal(n) == n >= 30 /\ n <= 49

\* is n a foreground/background color code
IsColorCode(n) == (n >= 30 /\ n <= 49) \/ (n >= 90 /\ n <= 109)

term_write_esc_all(w, s) == term_write_console(w, s)

\* term_write_esc: write one escape sequence s, unless it sets a color and
\* color is disabled
term_write_esc(w, s) ==
  IF w.t.nocolor /\ s[2] = "[" /\ s[Len(s)] = "m"
       /\ IsColorCode(sscanf1(Sub(s, 2, Len(s) - 2), 1).n)
    THEN [w |-> w, ret |-> TRUE]
    ELSE term_write_console(w, s)

RECURSIVE NonEscRun(_, _, _)
\* the inner while of term_write_direct: extend the run of non-escape units
NonEscRun(s, pos, nonesc) ==
  The({ IF next > 0 /\ s[pos + nonesc + 1] # ESC
          THEN NonEscRun(s, pos, nonesc + next)
          ELSE [nonesc |-> nonesc, next |-> next] :
        next \in {str_next_ofs(s, Len(s), pos + nonesc)} })

RECURSIVE StripLoop(_, _, _)

\* the second half of one iteration: w1 and pos1 are the state and position
\* after the bulk write, next is the length of the unit at pos1
StripUnit(w1, s, pos1, next) ==
  IF next <= 0 THEN [w |-> w1, pos |-> pos1]
  ELSE StripLoop(IF next > 1 /\ s[pos1 + 1] = ESC
                   THEN term_write_esc(w1, Sub(s, pos1, next)).w
                   ELSE term_write_console(w1, Sub(s, pos1, next)).w,
                 s, pos1 + next)

\* the first half of one iteration: r is the run found by the inner while
StripBulk(w, s, pos, r) ==
  StripUnit(IF r.nonesc > 0 THEN term_write_console(w, Sub(s, pos, r.nonesc)).w ELSE w,
            s, pos + r.nonesc, r.next)

\* the outer while of term_write_direct (nocolor branch)
StripLoop(w, s, pos) ==
  IF pos >= Len(s) THEN [w |-> w, pos |-> pos]
  ELSE StripBulk(w, s, pos, NonEscRun(s, pos, 0))

\* return (pos == len)
LoopResult(r, s) == [w |-> r.w, ret |-> (r.pos = Len(s))]

term_write_direct(w, s) ==
  IF ~w.t.nocolor THEN term_write_console(w, s)
  ELSE LoopResult(StripLoop(w, s, 0), s)

-----------------------------------------------------------------------------
(* Windows: the console API and the ANSI escape emulation *)

\* wincon.h attribute bits
FOREGROUND_RED == 4
FOREGROUND_INTENSITY == 8
BACKGROUND_INTENSITY == 128
COMMON_LVB_REVERSE_VIDEO == 16384
COMMON_LVB_UNDERSCORE == 32768
\* ENABLE_PROCESSED_OUTPUT | ENABLE_LVB_GRID_WORLDWIDE
RawConsoleMode == 17
\* the UTF-8 code page
CP_UTF8 == 65001

\* attr | bit and attr & ~bit for a single bit
BitSet(attr, bit) == IF (attr \div bit) % 2 = 1 THEN attr ELSE attr + bit
BitClear(attr, bit) == IF (attr \div bit) % 2 = 1 THEN attr - bit ELSE attr

\* faulty variant: the table in ANSI order (red 1, blue 4)
attr_color_ansi == <<0, 1, 2, 3, 4, 5, 6, 7>>

\* index -> console color bits: blue 1, green 2, red 4
attr_color == <<0, 4, 2, 6, 1, 5, 3, 7>>

\* WriteConsoleA moves the cursor past the text (wrapping at the right edge,
\* staying on the last row at the bottom)
RECURSIVE ConAdvance(_, _)
ConAdvance(c, s) ==
  IF s = <<>> THEN c
  ELSE ConAdvance(CASE Head(s) = "\r" -> [c EXCEPT !.X = 0]
                    [] Head(s) = "\n" -> [c EXCEPT !.Y = Clamp(@ + 1, 0, TermRows - 1)]
                    [] Head(s) \in ContBytes -> c
                    [] OTHER -> IF c.X + 1 < TermCols THEN [c EXCEPT !.X = @ + 1]
                                ELSE [c EXCEPT !.X = 0, !.Y = Clamp(@ + 1, 0, TermRows - 1)],
                  Tail(s))

\* term_write_console (Windows): one WriteConsoleA on term->hcon.  The console
\* writes the text with its current attribute word (kept in text_attr).
term_write_console_win(w, s) ==
  [w   |-> [w EXCEPT !.out = Append(@, s),
                     !.con = IF w.io /\ w.con.valid
                               THEN [ConAdvance(@, s) EXCEPT !.text_attr = w.con.attr]
                               ELSE @],
   ret |-> w.io /\ w.con.valid]

\* term_get_cursor: 1-based row and column, (0,0) when the console cannot be read
term_get_cursor(w) ==
  IF ~w.con.valid THEN [row |-> 0, col |-> 0]
  ELSE [row |-> w.con.Y + 1, col |-> w.con.X + 1]

\* faulty variant: only the lower bound is applied
term_move_cursor_to_first(w, row, col) ==
  IF ~w.con.valid THEN w
  ELSE [w EXCEPT !.con.X = (IF col <= 0 THEN 1 ELSE col) - 1,
                 !.con.Y = (IF row <= 0 THEN 1 ELSE row) - 1]

term_move_cursor_to(w, row, col) ==
  IF ~w.con.valid THEN w
  ELSE LET col1 == IF col > TermCols THEN TermCols ELSE col
           row1 == IF row > TermRows THEN TermRows ELSE row
           col2 == IF col1 <= 0 THEN 1 ELSE col1
           row2 == IF row1 <= 0 THEN 1 ELSE row1
       IN  [w EXCEPT !.con.X = col2 - 1, !.con.Y = row2 - 1]

term_cursor_save(w) ==
  IF ~w.con.valid THEN [w EXCEPT !.t.hcon_save_cursor = [X |-> 0, Y |-> 0]]
  ELSE [w EXCEPT !.t.hcon_save_cursor = [X |-> w.con.X, Y |-> w.con.Y]]

term_cursor_restore(w) ==
  IF w.t.hcon_save_cursor.X = 0 THEN w
  ELSE IF ~w.con.valid THEN w
  ELSE [w EXCEPT !.con.X = w.t.hcon_save_cursor.X, !.con.Y = w.t.hcon_save_cursor.Y]

term_move_cursor(w, drow, dcol, n) ==
  IF ~w.con.valid THEN w
  ELSE LET col == w.con.X + 1 + n * dcol
           row == w.con.Y + 1 + n * drow
       IN  term_move_cursor_to(w, row, col)

term_cursor_visible(w, visible) ==
  IF ~w.con.valid THEN w ELSE [w EXCEPT !.con.visible = visible]

\* FillConsoleOutputAttribute + FillConsoleOutputCharacterA(' ') with
\* (DWORD)length: a negative length converts to a huge count, and the console
\* fills at most up to the end of its screen buffer.  The cells blanked by
\* the call are recorded as its start and the number of cells filled.
ConFill(w, length, start) ==
  LET room == TermCols * TermRows - (start.Y * TermCols + start.X)
      cells == IF length < 0 \/ length > room THEN room ELSE length
  IN  [w EXCEPT !.con.fill = [X |-> start.X, Y |-> start.Y, length |-> cells]]

term_erase_line(w, mode) ==
  IF ~w.con.valid THEN w
  ELSE IF mode = 2
    THEN ConFill(w, (TermCols - 1) - w.con.X + 1, [X |-> w.con.X, Y |-> w.con.Y])
  ELSE IF mode = 1
    THEN ConFill(w, w.con.X, [X |-> 0, Y |-> w.con.Y])
  ELSE ConFill(w, (TermCols - 1) + 1, [X |-> 0, Y |-> w.con.Y])

term_clear_screen(w, mode) ==
  IF ~w.con.valid THEN w
  ELSE LET width == TermCols IN
       IF mode = 2
         THEN ConFill(w, width * TermRows, [X |-> 0, Y |-> 0])
       ELSE IF mode = 1
         THEN ConFill(w, (width * (w.con.Y - 1)) + w.con.X, [X |-> 0, Y |-> 0])
       ELSE ConFill(w, (width * (TermRows - w.con.Y)) + (width - w.con.X + 1),
                    [X |-> w.con.X, Y |-> w.con.Y])

term_esc_attr(w, cmd) ==
  IF ~w.con.valid THEN w
  ELSE LET def_attr == w.t.hcon_default_attr
           cur_attr == w.con.attr
           attr ==
             IF cmd = 0 THEN def_attr
             ELSE IF cmd = 4 THEN BitSet(cur_attr, COMMON_LVB_UNDERSCORE)
             ELSE IF cmd = 24 THEN BitClear(cur_attr, COMMON_LVB_UNDERSCORE)
             ELSE IF cmd = 7 THEN BitSet(cur_attr, COMMON_LVB_REVERSE_VIDEO)
             ELSE IF cmd = 27 THEN BitClear(cur_attr, COMMON_LVB_REVERSE_VIDEO)
             ELSE IF ~w.t.nocolor THEN
               IF cmd >= 30 /\ cmd <= 37
                 THEN (cur_attr - (cur_attr % 16)) + attr_color[cmd - 30 + 1]
               ELSE IF cmd >= 90 /\ cmd <= 97
                 THEN BitSet((cur_attr - (cur_attr % 16)) + attr_color[cmd - 90 + 1],
                             FOREGROUND_INTENSITY)
               ELSE IF cmd >= 40 /\ cmd <= 47
                 THEN (cur_attr - ((cur_attr \div 16) % 16) * 16) + attr_color[cmd - 40 + 1] * 16
               ELSE IF cmd >= 100 /\ cmd <= 107
                 THEN BitSet((cur_attr - ((cur_attr \div 16) % 16) * 16)
                               + attr_color[cmd - 100 + 1] * 16, BACKGROUND_INTENSITY)
               ELSE IF cmd = 39
                 THEN (cur_attr - (cur_attr % 16)) + (def_attr % 16)
               ELSE IF cmd = 49
                 THEN (cur_attr - ((cur_attr \div 16) % 16) * 16) + ((def_attr \div 16) % 16) * 16
               ELSE cur_attr
             ELSE cur_attr
       IN  IF attr # cur_attr THEN [w EXCEPT !.con.attr = attr] ELSE w

\* esc_param(s+2, len, def) on the sequence s
esc_param(s, def) == sscanf1(Sub(s, 2, Len(s) - 2), def).n

\* esc_param2(s+2, len, &p1, &p2, def) on the sequence s
esc_param2(s, def) == sscanf2(Sub(s, 2, Len(s) - 2), def, def)

\* term_write_esc (Windows): emulate one escape sequence s
\* strncmp(s+2, lit, 4) == 0 on the sequence s, which ends with the final byte
\* of lit: a shorter sequence differs from lit before its end
strncmp4(s, lit) == Len(s) >= 6 /\ Sub(s, 2, 4) = lit

term_write_esc_win(w, s) ==
  IF s[2] # "[" THEN w
  ELSE LET f == s[Len(s)] IN
    CASE f = "A" -> term_move_cursor(w, -1, 0, esc_param(s, 1))
      [] f = "B" -> term_move_cursor(w, 1, 0, esc_param(s, 1))
      [] f = "C" -> term_move_cursor(w, 0, 1, esc_param(s, 1))
      [] f = "D" -> term_move_cursor(w, 0, -1, esc_param(s, 1))
      [] f = "H" -> The({ term_move_cursor_to(w, p.p1, p.p2) : p \in {esc_param2(s, 1)} })
      [] f = "K" -> term_erase_line(w, esc_param(s, 0))
      [] f = "m" -> term_esc_attr(w, esc_param(s, 0))
      [] f = "E" -> term_move_cursor_to(w, term_get_cursor(w).row + esc_param(s, 1), 1)
      [] f = "F" -> term_move_cursor_to(w, term_get_cursor(w).row - esc_param(s, 1), 1)
      [] f = "G" -> term_move_cursor_to(w, term_get_cursor(w).row, esc_param(s, 1))
      [] f = "J" -> term_clear_screen(w, esc_param(s, 0))
      [] f = "h" -> IF strncmp4(s, <<"?", "2", "5", "h">>)
                      THEN term_cursor_visible(w, TRUE) ELSE w
      [] f = "l" -> IF strncmp4(s, <<"?", "2", "5", "l">>)
                      THEN term_cursor_visible(w, FALSE) ELSE w
      [] f = "s" -> term_cursor_save(w)
      [] f = "u" -> term_cursor_restore(w)
      [] OTHER -> w

RECURSIVE NonCtrlRun(_, _, _)
\* the inner while of term_write_direct (Windows): extend the run of non-control units
NonCtrlRun(s, pos, nonctrl) ==
  The({ IF next > 0 /\ s[pos + nonctrl + 1] \notin CtrlBytes
          THEN NonCtrlRun(s, pos, nonctrl + next)
          ELSE [nonctrl |-> nonctrl, next |-> next] :
        next \in {str_next_ofs(s, Len(s), pos + nonctrl)} })

RECURSIVE EmulateLoop(_, _, _)

\* faulty variant: escape sequences are written to the console like text
EmulateUnit_raw(w1, s, pos1, next) ==
  IF next <= 0 THEN [w |-> w1, pos |-> pos1]
  ELSE EmulateLoop(term_write_console_win(w1, Sub(s, pos1, next)).w, s, pos1 + next)

\* the second half of one iteration (Windows)
EmulateUnit(w1, s, pos1, next) ==
  IF next <= 0 THEN [w |-> w1, pos |-> pos1]
  ELSE EmulateLoop(IF next > 1 /\ s[pos1 + 1] = ESC
                     THEN term_write_esc_win(w1, Sub(s, pos1, next))
                     ELSE term_write_console_win(w1, Sub(s, pos1, next)).w,
                   s, pos1 + next)

\* the first half of one iteration (Windows)
EmulateBulk(w, s, pos, r) ==
  EmulateUnit(IF r.nonctrl > 0 THEN term_write_console_win(w, Sub(s, pos, r.nonctrl)).w ELSE w,
              s, pos + r.nonctrl, r.next)

\* the outer while of term_write_direct (Windows)
EmulateLoop(w, s, pos) ==
  IF pos >= Len(s) THEN [w |-> w, pos |-> pos]
  ELSE EmulateBulk(w, s, pos, NonCtrlRun(s, pos, 0))

\* term_cursor_visible(term, true); return (pos == len)
EmulateResult(r, s) == [w |-> term_cursor_visible(r.w, TRUE), ret |-> (r.pos = Len(s))]

term_write_direct_win(w, s) ==
  EmulateResult(EmulateLoop(term_cursor_visible(w, FALSE), s, 0), s)

\* static bool term_write_direct(...): the variant the build selects
write_direct(w, s) ==
  IF w.plat = "win" THEN term_write_direct_win(w, s) ELSE term_write_direct(w, s)

-----------------------------------------------------------------------------
(* Buffered output and formatted output *)

\* faulty variant: buffering is switched on although the buffer could not be allocated
term_start_buffered_noalloc(w) ==
  IF ~w.t.buf.alloc
    THEN [w EXCEPT !.t.buf = sbuf_new(w.mem), !.t.buffered = TRUE]
    ELSE [w EXCEPT !.t.buffered = TRUE]

term_start_buffered(w) ==
  IF ~w.t.buf.alloc
    THEN LET b == sbuf_new(w.mem) IN
         IF ~b.alloc THEN [w EXCEPT !.t.buffered = FALSE]
         ELSE [w EXCEPT !.t.buf = b, !.t.buffered = TRUE]
    ELSE [w EXCEPT !.t.buffered = TRUE]

\* faulty variant: the buffer is cleared only after a successful flush
FlushResult_keep_failed(d) ==
  [w |-> IF d.ret THEN [d.w EXCEPT !.t.buf = sbuf_clear(@)] ELSE d.w, ret |-> d.ret]

\* sbuf_clear(term->buf); if (!ok) return false; return true  (d: the flush)
FlushResult(d) == [w |-> [d.w EXCEPT !.t.buf = sbuf_clear(@)], ret |-> d.ret]

\* term_end_buffered once buffered is cleared
FlushBuffer(w0) ==
  IF w0.t.buf.alloc /\ sbuf_len(w0.t.buf) > 0
    THEN FlushResult(write_direct(w0, sbuf_string(w0.t.buf)))
    ELSE [w |-> w0, ret |-> TRUE]

term_end_buffered(w) ==
  IF ~w.t.buffered THEN [w |-> w, ret |-> TRUE]
  ELSE FlushBuffer([w EXCEPT !.t.buffered = FALSE])

\* faulty variant: the write ignores the buffering flag
term_write_n_unbuffered(w, s) == write_direct(w, s)

term_write_n(w, s) ==
  IF ~w.t.buffered THEN write_direct(w, s)
  ELSE [w |-> [w EXCEPT !.t.buf = sbuf_append_n(@, s)], ret |-> TRUE]

\* n = rp_strlen(s): s is the string without its terminating 0
term_write(w, s) == term_write_n(w, s)

\* sbuf_append_vprintf(term->buf, ...); if (!buffering) term_end_buffered(term)
AppendFormatted(w1, buffering, bytes) ==
  The({IF ~buffering THEN term_end_buffered(w2).w ELSE w2 :
         w2 \in {[w1 EXCEPT !.t.buf = sbuf_append_n(@, bytes)]}})

term_vwritef(w, fmt, args) ==
  [w |-> The({AppendFormatted(w1, w.t.buffered, vprintf(fmt, args)) :
                w1 \in {term_start_buffered(w)}}),
   ret |-> TRUE]

term_writef(w, fmt, args) == term_vwritef(w, fmt, args)

\* faulty variant: the toggle first writes out what is buffered
term_enable_color_flush(w, enable) ==
  [FlushBuffer(w).w EXCEPT !.t.nocolor = ~enable]

term_enable_color(w, enable) == [w EXCEPT !.t.nocolor = ~enable]

-----------------------------------------------------------------------------
(* Raw mode *)

\* POSIX
term_start_raw(w) ==
  IF w.t.raw_enabled THEN w ELSE [w EXCEPT !.t.raw_enabled = TRUE]

term_end_raw(w) ==
  IF ~w.t.raw_enabled THEN w ELSE [w EXCEPT !.t.raw_enabled = FALSE]

\* Windows.  The calls on term->hcon fail on an invalid handle; the output
\* code page belongs to the process' console and does not go through hcon.
\* faulty variant: the console state is captured again while raw mode is on
term_start_raw_win_again(w) ==
  LET t1 == IF w.con.valid
              THEN [w.t EXCEPT !.hcon_orig_attr = w.con.attr, !.hcon_orig_mode = w.con.mode]
              ELSE w.t
      t2 == [t1 EXCEPT !.hcon_orig_cp = w.con.cp, !.raw_enabled = TRUE]
      c2 == [w.con EXCEPT !.cp = CP_UTF8,
                          !.mode = IF w.con.valid THEN RawConsoleMode ELSE @]
  IN  [w EXCEPT !.t = t2, !.con = c2]

term_start_raw_win(w) ==
  IF w.t.raw_enabled THEN w
  ELSE LET t1 == IF w.con.valid
                   THEN [w.t EXCEPT !.hcon_orig_attr = w.con.attr, !.hcon_orig_mode = w.con.mode]
                   ELSE w.t
           t2 == [t1 EXCEPT !.hcon_orig_cp = w.con.cp, !.raw_enabled = TRUE]
           c2 == [w.con EXCEPT !.cp = CP_UTF8,
                               !.mode = IF w.con.valid THEN RawConsoleMode ELSE @]
       IN  [w EXCEPT !.t = t2, !.con = c2]

\* faulty variant: the text attribute is not set back
term_end_raw_win_keep_attr(w) ==
  IF ~w.t.raw_enabled THEN w
  ELSE LET c1 == IF w.con.valid THEN [w.con EXCEPT !.mode = w.t.hcon_orig_mode] ELSE w.con
           c2 == [c1 EXCEPT !.cp = w.t.hcon_orig_cp]
       IN  [w EXCEPT !.con = c2, !.t.raw_enabled = FALSE]

term_end_raw_win(w) ==
  IF ~w.t.raw_enabled THEN w
  ELSE LET c1 == IF w.con.valid
                   THEN [w.con EXCEPT !.mode = w.t.hcon_orig_mode, !.attr = w.t.hcon_orig_attr]
                   ELSE w.con
           c2 == [c1 EXCEPT !.cp = w.t.hcon_orig_cp]
       IN  [w EXCEPT !.con = c2, !.t.raw_enabled = FALSE]

\* term_init_raw (Windows): capture the default attribute word
term_init_raw_win(w) ==
  IF w.con.valid THEN [w EXCEPT !.t.hcon_default_attr = w.con.attr] ELSE w

\* the variants the build selects
start_raw(w) == IF w.plat = "win" THEN term_start_raw_win(w) ELSE term_start_raw(w)

end_raw(w) == IF w.plat = "win" THEN term_end_raw_win(w) ELSE term_end_raw(w)

-----------------------------------------------------------------------------
(* Terminal dimensions *)

RECURSIVE ReadReply(_, _)
\* the while (len < 63) loop of term_get_cursor_pos: [w, ok, buf]
ReadReply(w, buf) ==
  IF Len(buf) >= 63 THEN [w |-> w, ok |-> TRUE, buf |-> buf]
  ELSE The({IF ~r.ret THEN [w |-> r.w, ok |-> FALSE, buf |-> buf]
            ELSE IF ~(r.c \in Digits \/ r.c = ";") THEN [w |-> r.w, ok |-> TRUE, buf |-> buf]
            ELSE ReadReply(r.w, Append(buf, r.c)) : r \in {tty_readc_noblock(w)}})

\* return (sscanf(buf, "%d;%d", row, col) == 2)  (r: what the loop read)
ParseReply(r, row, col) ==
  IF ~r.ok THEN [w |-> r.w, ret |-> FALSE, row |-> row, col |-> col]
  ELSE The({[w |-> r.w, ret |-> (p.cnt = 2), row |-> p.p1, col |-> p.p2] :
              p \in {sscanf2(r.buf, row, col)}})

\* if (!tty_readc_noblock(tty,&c) || c != '[') return false  (c2: the read)
ReplyBracket(c2, row, col) ==
  IF ~c2.ret \/ c2.c # "[" THEN [w |-> c2.w, ret |-> FALSE, row |-> row, col |-> col]
  ELSE The({ParseReply(r, row, col) : r \in {ReadReply(c2.w, <<>>)}})

\* if (!tty_readc_noblock(tty,&c) || c != '\x1B') return false  (c1: the read)
ReplyEsc(c1, row, col) ==
  IF ~c1.ret \/ c1.c # ESC THEN [w |-> c1.w, ret |-> FALSE, row |-> row, col |-> col]
  ELSE The({ReplyBracket(c2, row, col) : c2 \in {tty_readc_noblock(c1.w)}})

\* if (!term_write(term, CSI "6n")) return false  (q: the write)
ReplyTo(q, row, col) ==
  IF ~q.ret THEN [w |-> q.w, ret |-> FALSE, row |-> row, col |-> col]
  ELSE The({ReplyEsc(c1, row, col) : c1 \in {tty_readc_noblock(q.w)}})

\* term_get_cursor_pos(term, tty, &row, &col); row and col hold the callers'
\* values on entry
term_get_cursor_pos(w, row, col) ==
  The({ReplyTo(q, row, col) : q \in {term_write(w, RP_CSI \o <<"6", "n">>)}})

term_set_cursor_pos(w, row, col) == term_writef(w, "%d;%dH", <<row, col>>).w

\* bool changed = ...; term->width = cols; term->height = rows; return changed
\* (w: the handle on entry, p: the state and the size the probe leaves)
StoreDim(w, p) ==
  [w |-> [p.w EXCEPT !.t.width = p.cols, !.t.height = p.rows],
   ret |-> (w.t.width # p.cols \/ w.t.height # p.rows)]

\* the second query and the move back  (g0: the first query, g1: the second)
ProbeBack(g0, g10) ==
  The({[w |-> term_set_cursor_pos(g1.w, g0.row, g0.col),
        cols |-> IF g1.ret THEN g1.col ELSE 0,
        rows |-> IF g1.ret THEN g1.row ELSE 0] : g1 \in {g10}})

\* the fallback after the first query g0
ProbeCorner(g0) ==
  IF g0.ret
    THEN The({ProbeBack(g0, term_get_cursor_pos(w1, 0, 0)) :
                w1 \in {term_set_cursor_pos(g0.w, 999, 999)}})
    ELSE [w |-> g0.w, cols |-> 0, rows |-> 0]

\* faulty variant: a size of zero columns or rows is treated as a failed query
ProbeSize_nonzero(w) ==
  IF w.ws.ok /\ w.ws.col > 0 /\ w.ws.row > 0
    THEN [w |-> w, cols |-> w.ws.col, rows |-> w.ws.row]
    ELSE The({ProbeCorner(g0) : g0 \in {term_get_cursor_pos(w, 0, 0)}})

\* the size the probe finds; w.ws is what ioctl(1, TIOCGWINSZ, &ws) answers
ProbeSize(w) ==
  IF w.ws.ok THEN [w |-> w, cols |-> w.ws.col, rows |-> w.ws.row]
  ELSE The({ProbeCorner(g0) : g0 \in {term_get_cursor_pos(w, 0, 0)}})

\* POSIX
term_update_dim(w) == The({StoreDim(w, p) : p \in {ProbeSize(w)}})

\* Windows: the size of the console window
term_update_dim_win(w) ==
  LET cols == IF w.con.valid THEN TermCols ELSE 0
      rows == IF w.con.valid THEN TermRows ELSE 0
      changed == (w.t.width # cols \/ w.t.height # rows)
  IN  [w |-> [w EXCEPT !.t.width = cols, !.t.height = rows], ret |-> changed]

update_dim(w) == IF w.plat = "win" THEN term_update_dim_win(w) ELSE term_update_dim(w)

-----------------------------------------------------------------------------
(* Creation and destruction *)

\* mem_zalloc_tp(mem, term_t): all fields zero; alive tells a handle from NULL
ZeroTerm ==
  [alive |-> FALSE, width |-> 0, height |-> 0, nocolor |-> FALSE, silent |-> FALSE,
   raw_enabled |-> FALSE, buffered |-> FALSE, buf |-> NullBuf,
   hcon_default_attr |-> 0, hcon_orig_attr |-> 0, hcon_orig_mode |-> 0,
   hcon_orig_cp |-> 0, hcon_save_cursor |-> [X |-> 0, Y |-> 0]]

\* the fields term_new sets before it probes the terminal
NewTerm(nocolor, silent, env_columns, env_lines) ==
  [ZeroTerm EXCEPT !.alive = TRUE, !.nocolor = nocolor, !.silent = silent,
                   !.width = sscanf1(env_columns, 80).n,
                   !.height = sscanf1(env_lines, 25).n]

\* term_new(mem, tty, nocolor, silent, fout); env_columns / env_lines are the
\* values of COLUMNS and LINES (<<>> when unset).  w.t is ignored on entry.
term_new(w, nocolor, silent, env_columns, env_lines) ==
  IF ~w.mem THEN [w |-> [w EXCEPT !.t = ZeroTerm], ret |-> FALSE]
  ELSE The({[w |-> update_dim(IF w.plat = "win" THEN term_init_raw_win(w1) ELSE w1).w,
              ret |-> TRUE] :
              w1 \in {[w EXCEPT !.t = NewTerm(nocolor, silent, env_columns, env_lines)]}})

\* term_free; a NULL handle is one that is not alive
\* sbuf_free(term->buf); term->buf = NULL; mem_free(term->mem, term)
Release(w2) == [w2 EXCEPT !.t.buf = NullBuf, !.t.alive = FALSE]

\* faulty variant: raw mode is left before the pending output is flushed
term_free_raw_first(w) ==
  IF ~w.t.alive THEN w
  ELSE The({Release(term_end_buffered(w1).w) : w1 \in {end_raw(w)}})

term_free(w) ==
  IF ~w.t.alive THEN w
  ELSE The({Release(end_raw(w1)) : w1 \in {term_end_buffered(w).w}})

-----------------------------------------------------------------------------
(* Strings without their color sequences, computed byte by byte *)

ColorParams == (30..49) \cup (90..109)

RECURSIVE DecimalValue(_)
DecimalValue(ds) ==
  IF ds = <<>> THEN 0 ELSE 10 * DecimalValue(SubSeq(ds, 1, Len(ds) - 1)) + DigitVal(ds[Len(ds)])

RECURSIVE DigitsEnd(_, _)
\* the index of the last digit of the run of digits that starts at s[i]; i - 1 if none
DigitsEnd(s, i) == IF i <= Len(s) /\ s[i] \in Digits THEN DigitsEnd(s, i + 1) ELSE i - 1

RECURSIVE ParamsEnd(_, _)
ParamsEnd(s, i) == IF i <= Len(s) /\ s[i] \in ParamBytes THEN ParamsEnd(s, i + 1) ELSE i - 1

\* the length of the sequence ESC [ n m, n a color parameter, that s starts
\* with (e is the index of the last digit of n); 0 if s starts with none
OneParamColor(s, e) ==
  IF Len(s) > e /\ e >= 3 /\ s[1] = ESC /\ s[2] = "[" /\ s[e + 1] = "m"
       /\ DecimalValue(SubSeq(s, 3, e)) \in ColorParams
    THEN e + 1 ELSE 0

\* the length of the sequence ESC [ n ... m, n a color parameter followed by
\* any further parameter bytes, that s starts with; 0 if s starts with none
FirstParamColor(s, e, f) ==
  IF Len(s) > f /\ e >= 3 /\ s[1] = ESC /\ s[2] = "[" /\ s[f + 1] = "m"
       /\ DecimalValue(SubSeq(s, 3, e)) \in ColorParams
    THEN f + 1 ELSE 0

RECURSIVE WithoutColor(_)
RECURSIVE WithoutColorFrom(_, _)
\* s with every sequence ESC [ n m, n a color parameter, removed
WithoutColor(s) ==
  IF s = <<>> THEN <<>> ELSE WithoutColorFrom(s, OneParamColor(s, DigitsEnd(s, 3)))

WithoutColorFrom(s, k) ==
  IF k > 0 THEN WithoutColor(SubSeq(s, k + 1, Len(s)))
  ELSE <<Head(s)>> \o WithoutColor(Tail(s))

RECURSIVE WithoutFirstColor(_)
RECURSIVE WithoutFirstColorFrom(_, _)
\* s with every SGR sequence whose first parameter is a color parameter removed
WithoutFirstColor(s) ==
  IF s = <<>> THEN <<>>
  ELSE WithoutFirstColorFrom(s, FirstParamColor(s, DigitsEnd(s, 3), ParamsEnd(s, 3)))

WithoutFirstColorFrom(s, k) ==
  IF k > 0 THEN WithoutFirstColor(SubSeq(s, k + 1, Len(s)))
  ELSE <<Head(s)>> \o WithoutFirstColor(Tail(s))

-----------------------------------------------------------------------------
(* Inputs *)

Red == RP_CSI \o <<"3", "1", "m">>
BrightGreen == RP_CSI \o <<"9", "2", "m">>
Reset == RP_CSI \o <<"0", "m">>
Underline == RP_CSI \o <<"4", "m">>
EraseLine == RP_CSI \o <<"2", "K">>
Home22 == RP_CSI \o <<"2", ";", "2", "H">>
Hello == <<"H", "E", "L", "L", "O">>
RedHelloReset == Red \o Hello \o Reset

\* strings passed to term_write
Texts == IF plat = "win"
           THEN {<<"H">>, Red, Reset, Underline, EraseLine, Home22}
           ELSE {<<>>, <<"a">>, <<ESC>>, Red, EraseLine}

\* calls of term_writef made by the helpers term_left, term_up and term_color
FmtCalls == {<<"%zdD", <<n>>>> : n \in 1..MaxArg}
              \cup {<<"%zdA", <<n>>>> : n \in 1..MaxArg}
              \cup {<<"%dm", <<31>>>>}

\* answers of ioctl(1, TIOCGWINSZ): failure, the real size, or a degenerate size
WsAnswers == {[ok |-> FALSE, col |-> 0, row |-> 0],
              [ok |-> TRUE, col |-> TermCols, row |-> TermRows],
              [ok |-> TRUE, col |-> 0, row |-> 0]}

NoWs == [ok |-> FALSE, col |-> 0, row |-> 0]

\* how the terminal answers the cursor position requests of one probe: with a
\* report, not at all, or with something else; the second request is made
\* only after a report
Plans == {<<"ok", "ok">>, <<"ok", "none">>, <<"ok", "bad">>, <<"none">>, <<"bad">>,
          <<"badend", "ok">>, <<"extra", "ok">>, <<"short", "ok">>}

\* what happens during one call of term_update_dim: the size query answers
\* (then nothing else is called), or it fails and the terminal answers as
\* planned while the allocator works or fails, or it fails and write(2) fails
DimCases ==
  {[ws |-> ws, plan |-> <<>>, io |-> TRUE, mem |-> TRUE] : ws \in WsAnswers \ {NoWs}}
    \cup {[ws |-> NoWs, plan |-> plan, io |-> TRUE, mem |-> mem] :
            plan \in Plans, mem \in BOOLEAN}
    \cup {[ws |-> NoWs, plan |-> <<"ok", "ok">>, io |-> FALSE, mem |-> TRUE]}

\* the world a call runs in
World(io, mem, ws, plan) ==
  [plat |-> plat, t |-> term, con |-> con,
   ansi |-> [ansi EXCEPT !.plan = plan, !.sent = <<>>],
   out |-> <<>>, io |-> io, mem |-> mem, ws |-> ws]

\* the state a call leaves: r is the world it leaves and its return value
Leaves(r0) ==
  \E r \in {r0} :
    /\ plat' = plat
    /\ term' = r.w.t
    /\ con' = r.w.con
    /\ ansi' = r.w.ansi
    /\ out' = r.w.out
    /\ ret' = r.ret
    /\ frame' = frame

\* a call returning void
Void(w) == [w |-> w, ret |-> TRUE]

IdleCyc == [open |-> FALSE, logical |-> <<>>, issued |-> <<>>, phys |-> 0, n |-> 0]

IdleRaw == [open |-> FALSE, nested |-> FALSE, mode |-> 0, cp |-> 0, attr |-> 0]

\* no term_write_direct loop has run
NoFrame == [pc |-> "idle", s |-> <<>>, pos |-> 0, iter |-> 0, seen |-> <<>>]

\* the bookkeeping of a finished cycle is dropped by the next call
CycNow == IF cyc.open THEN cyc ELSE IdleCyc

RawNow == IF rawg.open THEN rawg ELSE IdleRaw

\* the bytes the direct write path delivers for s under the current color flag
Delivered(s) == IF term.nocolor THEN WithoutFirstColor(s) ELSE s

\* a write call made inside a cycle: its bytes, these bytes as the color flag
\* at the time of the call lets them through, and its nphys physical writes
CycWrite(s, nphys) ==
  IF cyc.open
    THEN [cyc EXCEPT !.logical = @ \o s, !.issued = @ \o Delivered(s),
                     !.phys = @ + nphys, !.n = @ + 1]
    ELSE IdleCyc

-----------------------------------------------------------------------------
(* Operations on a terminal handle *)

StartBuffered ==
  /\ term.alive
  /\ \E mem \in BOOLEAN :
       /\ Leaves(Void(term_start_buffered(World(TRUE, mem, NoWs, <<>>))))
       /\ last' = [op |-> "start_buffered", buffered0 |-> term.buffered, mem |-> mem]
       /\ cyc' = IF term.buffered /\ cyc.open THEN cyc
                 ELSE [IdleCyc EXCEPT !.open = TRUE]
       /\ rawg' = RawNow

EndBuffered ==
  /\ term.alive
  /\ \E io \in BOOLEAN :
       /\ Leaves(term_end_buffered(World(io, TRUE, NoWs, <<>>)))
       /\ last' = [op |-> "end_buffered", buffered0 |-> term.buffered,
                   open0 |-> cyc.open, nocolor0 |-> term.nocolor, io |-> io]
       /\ cyc' = [cyc EXCEPT !.open = FALSE]
       /\ rawg' = RawNow

Write(S) ==
  /\ term.alive
  /\ cyc.n < MaxWrites
  /\ \E s \in S, io \in BOOLEAN :
       /\ Leaves(term_write(World(io, TRUE, NoWs, <<>>), s))
       /\ last' = [op |-> "write", buffered0 |-> term.buffered, s |-> s, io |-> io,
                   con0 |-> con, save0 |-> term.hcon_save_cursor]
       /\ cyc' = CycWrite(s, Len(out'))
       /\ rawg' = RawNow

Writef ==
  /\ term.alive
  /\ cyc.n < MaxWrites
  /\ \E f \in FmtCalls, io \in BOOLEAN, mem \in BOOLEAN :
       /\ Leaves(term_writef(World(io, mem, NoWs, <<>>), f[1], f[2]))
       /\ last' = [op |-> "writef", buffered0 |-> term.buffered,
                   s |-> vprintf(f[1], f[2]), io |-> io, mem |-> mem,
                   pending0 |-> term.buf.data]
       /\ cyc' = CycWrite(vprintf(f[1], f[2]), Len(out'))
       /\ rawg' = RawNow

EnableColor ==
  /\ term.alive
  /\ \E enable \in BOOLEAN :
       /\ Leaves(Void(term_enable_color(World(TRUE, TRUE, NoWs, <<>>), enable)))
       /\ last' = [op |-> "enable_color", enable |-> enable]
       /\ cyc' = CycNow
       /\ rawg' = RawNow

StartRaw ==
  /\ term.alive
  /\ Leaves(Void(start_raw(World(TRUE, TRUE, NoWs, <<>>))))
  /\ last' = [op |-> "start_raw", raw0 |-> term.raw_enabled]
  /\ cyc' = CycNow
  /\ rawg' = IF term.raw_enabled /\ rawg.open THEN [rawg EXCEPT !.nested = TRUE]
             ELSE [open |-> TRUE, nested |-> FALSE,
                   mode |-> con.mode, cp |-> con.cp, attr |-> con.attr]

EndRaw ==
  /\ term.alive
  /\ Leaves(Void(end_raw(World(TRUE, TRUE, NoWs, <<>>))))
  /\ last' = [op |-> "end_raw", raw0 |-> term.raw_enabled, open0 |-> rawg.open,
              attr0 |-> con.attr]
  /\ cyc' = CycNow
  /\ rawg' = [rawg EXCEPT !.open = FALSE]

UpdateDim ==
  /\ term.alive
  /\ cyc.n < MaxWrites
  /\ \E c \in DimCases :
       /\ Leaves(update_dim(World(c.io, c.mem, c.ws, c.plan)))
       /\ last' = [op |-> "update_dim", ws |-> c.ws, io |-> c.io, mem |-> c.mem,
                   plan |-> c.plan,
                   buffered0 |-> term.buffered, buf0 |-> term.buf.alloc,
                   pending0 |-> term.buf.data,
                   width0 |-> term.width, height0 |-> term.height]
       /\ cyc' = IF cyc.open THEN [cyc EXCEPT !.n = @ + 1] ELSE IdleCyc
       /\ rawg' = RawNow

Free ==
  /\ \E io \in BOOLEAN :
       /\ Leaves(Void(term_free(World(io, TRUE, NoWs, <<>>))))
       /\ last' = [op |-> "free", alive0 |-> term.alive, buffered0 |-> term.buffered,
                   raw0 |-> term.raw_enabled, pending0 |-> term.buf.data,
                   mode0 |-> con.mode, cp0 |-> con.cp, io |-> io]
       /\ cyc' = CycNow
       /\ rawg' = RawNow

-----------------------------------------------------------------------------
(* Initial states: the state term_new leaves *)

Console0 == [valid |-> FALSE, mode |-> 0, cp |-> 0, attr |-> 0, X |-> 0, Y |-> 0,
             visible |-> TRUE, fill |-> [X |-> 0, Y |-> 0, length |-> 0],
             text_attr |-> 0]

Ansi0 == [row |-> 1, col |-> 1, inq |-> <<>>, plan |-> <<>>, sent |-> <<>>]

\* r: what term_new leaves and returns
Constructed(p, r0) ==
  \E r \in {r0} :
    /\ plat = p
    /\ term = r.w.t
    /\ con = r.w.con
    /\ ansi = r.w.ansi
    /\ out = r.w.out
    /\ ret = r.ret
    /\ last = [op |-> "new"]
    /\ cyc = IdleCyc
    /\ rawg = IdleRaw
    /\ frame = NoFrame

Created(p, c0, a0, nocolor, mem, ws, plan, env_columns, env_lines) ==
  Constructed(p, term_new([plat |-> p, t |-> ZeroTerm, con |-> c0,
                           ansi |-> [a0 EXCEPT !.plan = plan],
                           out |-> <<>>, io |-> TRUE, mem |-> mem, ws |-> ws],
                          nocolor, FALSE, env_columns, env_lines))

\* POSIX build
Init ==
  \E nocolor \in BOOLEAN, mem \in BOOLEAN, ws \in WsAnswers,
     env \in {<<>>, <<"1", "3", "2">>} :
       Created("posix", Console0, Ansi0, nocolor, mem, ws, <<"ok", "ok">>, env, <<>>)

Next ==
  \/ StartBuffered
  \/ EndBuffered
  \/ Write(Texts)
  \/ Writef
  \/ EnableColor
  \/ StartRaw
  \/ EndRaw
  \/ Free

Spec == Init /\ [][Next]_vars

-----------------------------------------------------------------------------
(* Buffered output: claims C1 and C10 (specification Spec) *)

\* C1 as stated: the write calls of a begin_buffering .. end_buffering cycle
\* make no physical write, and end_buffering makes exactly one, whose bytes
\* are the concatenation of the cycle's logical writes in call order.
C1_OneWritePerCycle ==
  (last.op = "end_buffered" /\ last.buffered0 /\ cyc.logical # <<>>)
    => (cyc.phys = 0 /\ out = <<cyc.logical>>)

\* C1 amended: while buffering is active no write call makes a physical write,
\* and end_buffering hands the concatenation of the cycle's logical writes once
\* to the direct write path: nothing is written when it is empty; with color
\* enabled it is one physical write of exactly these bytes; with color
\* disabled the physical writes together carry these bytes without their
\* color sequences.
C1_FlushOnce ==
  (last.op = "end_buffered" /\ last.buffered0)
    => /\ cyc.phys = 0
       /\ ~term.buffered
       /\ (cyc.logical = <<>>) => (out = <<>>)
       /\ (cyc.logical # <<>> /\ ~term.nocolor) => (out = <<cyc.logical>>)
       /\ (cyc.logical # <<>> /\ term.nocolor)
            => (Flatten(out) = WithoutFirstColor(cyc.logical))

\* a cycle of two logical writes flushed with color enabled
C1_Witness ==
  /\ last.op = "end_buffered"
  /\ last.buffered0
  /\ cyc.n = 2
  /\ ~term.nocolor
  /\ Len(cyc.logical) > 1
  /\ out = <<cyc.logical>>

\* C10: buffering_active implies that the output buffer is allocated, whatever
\* the allocator does.
C10_BufferedHasBuffer == term.buffered => term.buf.alloc

\* buffering is still active after a formatted write during which the
\* allocator fails
C10_Witness ==
  term.buffered /\ term.buf.alloc /\ last.op = "writef" /\ ~last.mem

-----------------------------------------------------------------------------
(* The strip variant of the direct write path: claims C2 and C3            *)
(* (specification SpecStrip: unbuffered writes on the POSIX build)         *)

\* SGR parameters at the edges of the two color ranges
EdgeCodes == {29, 30, 49, 50, 89, 90, 109, 110}

RedBold == RP_CSI \o <<"3", "1", ";", "1", "m">>
BoldRed == RP_CSI \o <<"1", ";", "3", "1", "m">>

\* the pieces the written strings are made of: text, a two byte character, a
\* lone ESC, a cursor command, and one and two parameter SGR sequences
StripUnits ==
  {<<"a">>, <<"xC3", "x80">>, <<ESC>>, EraseLine, Red, Reset, RedBold, BoldRed}

RECURSIVE Concats(_)
\* the concatenations of at most k units
Concats(k) ==
  IF k = 0 THEN {<<>>}
  ELSE Concats(k - 1) \cup {c \o u : c \in Concats(k - 1), u \in StripUnits}

StripInputs ==
  Concats(MaxUnits) \cup {vprintf("%dm", <<n>>) : n \in EdgeCodes} \cup {RedHelloReset}

InitStrip ==
  \E nocolor \in BOOLEAN :
    Created("posix", Console0, Ansi0, nocolor, TRUE, NoWs, <<"ok", "ok">>, <<>>, <<>>)

NextStrip ==
  \/ Write(StripInputs)
  \/ EnableColor

SpecStrip == InitStrip /\ [][NextStrip]_vars

\* an unbuffered write of last.s was made with color disabled, and every
\* write(2) it made succeeded
StrippedWrite ==
  last.op = "write" /\ ~last.buffered0 /\ term.nocolor /\ last.io

\* C2 as stated: with color disabled the sink receives the written string
\* with every sequence ESC [ n m, n in 30..49 or 90..109, removed and every
\* other byte unchanged and in order.
C2_StripsExactlyColor ==
  StrippedWrite => Flatten(out) = WithoutColor(last.s)

\* C2 amended: with color disabled the sink receives the written string with
\* every CSI sequence removed that ends in m and whose first parameter is in
\* 30..49 or 90..109, whatever parameters follow the first (ESC[31;1m is
\* removed whole, ESC[1;31m is kept); every other byte is unchanged and in order.
C2_StripsFirstParamColor ==
  StrippedWrite => Flatten(out) = WithoutFirstColor(last.s)

\* a color sequence is removed and the cursor command after it is kept
C2_Witness ==
  StrippedWrite /\ last.s = Red \o EraseLine /\ out = <<EraseLine>>

\* C3 as stated: writing ESC[31m HELLO ESC[0m with color disabled delivers
\* exactly the five bytes HELLO.
C3_OnlyHello ==
  (StrippedWrite /\ last.s = RedHelloReset) => Flatten(out) = Hello

\* C3 amended: writing ESC[31m HELLO ESC[0m with color disabled delivers HELLO
\* followed by the attribute reset ESC[0m: only the color sequence is stripped.
C3_HelloThenReset ==
  (StrippedWrite /\ last.s = RedHelloReset) => out = <<Hello, Reset>>

C3_Witness ==
  StrippedWrite /\ last.s = RedHelloReset /\ Flatten(out) = Hello \o Reset

-----------------------------------------------------------------------------
(* Raw mode and destruction on the Windows build: claims C4, C5 and C9     *)
(* (specification SpecWin)                                                 *)

\* consoles term_new may find: hcon is a console or not, and two settings of
\* the console mode, the output code page and the text attribute word
WinConsoles ==
  {[Console0 EXCEPT !.valid = v, !.mode = k[1], !.cp = k[2], !.attr = k[3]] :
     v \in BOOLEAN, k \in {<<3, 437, 7>>, <<7, 850, 112>>}}

\* strings written between the raw mode calls: text and an SGR sequence
RawTexts == {<<"H">>, Red}

InitWin ==
  \E c0 \in WinConsoles, mem \in BOOLEAN :
    Created("win", c0, Ansi0, FALSE, mem, NoWs, <<>>, <<>>, <<>>)

NextWin ==
  \/ StartBuffered
  \/ EndBuffered
  \/ Write(RawTexts)
  \/ StartRaw
  \/ EndRaw
  \/ Free

SpecWin == InitWin /\ [][NextWin]_vars

\* the console settings are those found by the enter_raw that switched raw mode on
ConsoleRestored ==
  /\ con.cp = rawg.cp
  /\ con.mode = rawg.mode
  /\ con.attr = rawg.attr

\* C4: after enter_raw .. exit_raw with no raw mode call in between (writes
\* may occur in between), the console mode, the output code page and the text
\* attribute word are what they were just before enter_raw, and
\* raw_mode_active is false.
C4_RawRestores ==
  (last.op = "end_raw" /\ last.raw0 /\ last.open0 /\ ~rawg.nested)
    => (ConsoleRestored /\ ~term.raw_enabled)

\* exit_raw sets back a mode, a code page and an attribute word that raw mode
\* and an SGR sequence written in between had changed
C4_Witness ==
  /\ last.op = "end_raw" /\ last.raw0 /\ last.open0 /\ ~rawg.nested
  /\ con.valid
  /\ rawg.mode # RawConsoleMode /\ rawg.cp # CP_UTF8 /\ last.attr0 # rawg.attr
  /\ ConsoleRestored

\* enter_raw; enter_raw; exit_raw  and  enter_raw; exit_raw  from the state w
RawTwice(w) == end_raw(start_raw(start_raw(w)))
RawOnce(w) == end_raw(start_raw(w))
SameHandleAndConsole(a, b) == a.t = b.t /\ a.con = b.con

\* C5: raw mode does not nest.  From every reachable state, on either build,
\* enter_raw; enter_raw; exit_raw leaves the handle and the console as
\* enter_raw; exit_raw leaves them; and an exit_raw that follows two
\* enter_raw calls sets back what the first of them found.
C5_RawDoesNotNest ==
  /\ \A p \in {"posix", "win"} :
       SameHandleAndConsole(RawTwice([World(TRUE, TRUE, NoWs, <<>>) EXCEPT !.plat = p]),
                            RawOnce([World(TRUE, TRUE, NoWs, <<>>) EXCEPT !.plat = p]))
  /\ (last.op = "end_raw" /\ last.raw0 /\ last.open0 /\ rawg.nested)
       => (ConsoleRestored /\ ~term.raw_enabled)
  /\ (last.op = "start_raw" /\ last.raw0 /\ rawg.open /\ con.valid)
       => (term.hcon_orig_mode = rawg.mode /\ term.hcon_orig_attr = rawg.attr
           /\ term.hcon_orig_cp = rawg.cp)

\* exit_raw after two enter_raw calls sets back the settings the first one found
C5_Witness ==
  /\ last.op = "end_raw" /\ last.raw0 /\ last.open0 /\ rawg.nested
  /\ con.valid
  /\ rawg.mode # RawConsoleMode /\ rawg.cp # CP_UTF8 /\ last.attr0 # rawg.attr
  /\ ConsoleRestored

RECURSIVE ConsoleText(_)
RECURSIVE ConsoleTextFrom(_, _)
\* the bytes of s that are text: s without its CSI sequences
ConsoleText(s) ==
  IF s = <<>> THEN <<>> ELSE ConsoleTextFrom(s, str_next_ofs(s, Len(s), 0))

ConsoleTextFrom(s, n) ==
  IF n > 1 /\ s[1] = ESC THEN ConsoleText(SubSeq(s, n + 1, Len(s)))
  ELSE SubSeq(s, 1, n) \o ConsoleText(SubSeq(s, n + 1, Len(s)))

\* the state after destroying a handle
C9_AfterDestroy ==
  (last.op = "free" /\ last.alive0)
    => /\ ~term.alive /\ term.buf = NullBuf
       /\ ~term.buffered /\ ~term.raw_enabled
       /\ Flatten(out) = (IF last.buffered0 THEN ConsoleText(last.pending0) ELSE <<>>)
       /\ last.raw0 => con.cp = term.hcon_orig_cp
       /\ (last.raw0 /\ con.valid)
            => (con.mode = term.hcon_orig_mode /\ con.attr = term.hcon_orig_attr)
       /\ ~last.raw0 => (con.mode = last.mode0 /\ con.cp = last.cp0)

\* destroying a null handle
C9_NullDestroy ==
  (~term.alive /\ last'.op = "free")
    => (term' = term /\ con' = con /\ out' = <<>> /\ ansi'.row = ansi.row
        /\ ansi'.col = ansi.col)

\* C9: destroying a handle flushes the pending buffered output, then leaves
\* raw mode if it is active, setting back the captured console state, then
\* releases the buffer and the handle: the pending text is on the console,
\* raw mode is off and the console settings are the captured ones, also when
\* the flushed output changed the text attribute.  Destroying a null handle
\* changes nothing.
C9_DestroyFlushesThenLeavesRaw ==
  []C9_AfterDestroy /\ [][C9_NullDestroy]_vars

\* a handle destroyed in raw mode with a color sequence and text pending
C9_Witness ==
  /\ last.op = "free" /\ last.alive0 /\ last.buffered0 /\ last.raw0
  /\ con.valid
  /\ last.pending0 = Red \o <<"H">>
  /\ out = << <<"H">> >>
  /\ con.attr = term.hcon_orig_attr

-----------------------------------------------------------------------------
(* The terminal dimension probe on the POSIX build: claims C6, C7 and C8   *)
(* (specification SpecDim)                                                 *)

\* the terminal with its cursor anywhere on the screen
AnsiAt == {[Ansi0 EXCEPT !.row = p.row, !.col = p.col] : p \in Positions}

\* term_new with COLUMNS and LINES unset or set, every answer of the size
\* query, and a terminal that answers the position requests or stays silent
InitDim ==
  \E a0 \in AnsiAt, nocolor \in BOOLEAN, ws \in WsAnswers,
     plan \in {<<"ok", "ok">>, <<"none">>}, env \in {<<>>, <<"1", "3", "2">>} :
       Created("posix", Console0, a0, nocolor, TRUE, ws, plan, env, env)

NextDim ==
  \/ UpdateDim
  \/ StartBuffered
  \/ EndBuffered

SpecDim == InitDim /\ [][NextDim]_vars

CursorRequest == RP_CSI \o <<"6", "n">>

\* update_dimensions ran, the size query failed, and the terminal received
\* and answered n position requests
FallbackAnswered(n) ==
  last.op = "update_dim" /\ ~last.ws.ok /\ Len(ansi.sent) = n

\* C6 as stated: when the size query fails and the fallback fails at either
\* position request, the cached width and height keep their previous values.
C6_FailedProbeKeepsSize ==
  (FallbackAnswered(0) \/ FallbackAnswered(1))
    => (term.width = last.width0 /\ term.height = last.height0)

\* C7 as stated: when the size query fails and the terminal answers both
\* position requests, the sink receives in this order the request, the move to
\* (999,999), the request and the move back; afterwards the cursor is where the
\* first report says, and the cached width and height are the column and row
\* of the second report.
C7_ProbeSequence ==
  FallbackAnswered(2)
    => /\ out = <<CursorRequest, vprintf("%d;%dH", <<999, 999>>), CursorRequest,
                  vprintf("%d;%dH", <<ansi.sent[1].row, ansi.sent[1].col>>)>>
       /\ ansi.row = ansi.sent[1].row /\ ansi.col = ansi.sent[1].col
       /\ term.width = ansi.sent[2].col /\ term.height = ansi.sent[2].row

\* C8 as stated: when the size query succeeds with zero columns or rows,
\* update_dimensions runs the fallback (its first step is the position
\* request) and does not adopt the zero size.
C8_DegenerateSizeFallsBack ==
  (last.op = "update_dim" /\ ~last.buffered0 /\ last.io
     /\ last.ws.ok /\ (last.ws.col = 0 \/ last.ws.row = 0))
    => (out # <<>> /\ Head(out) = CursorRequest)

\* C8 as amended: when the size query succeeds, also with zero columns or
\* rows, update_dimensions adopts the size it reports as the cached width and
\* height and does not run the fallback: nothing is written to the sink or
\* queued in the buffer, and the terminal receives no position request.
C8_ReportedSizeAdopted ==
  (last.op = "update_dim" /\ last.ws.ok)
    => /\ term.width = last.ws.col /\ term.height = last.ws.row
       /\ out = <<>> /\ term.buf.data = last.pending0
       /\ ansi.sent = <<>>

\* a size of zero replaces a cached size that was not zero
C8_Witness ==
  /\ last.op = "update_dim" /\ last.ws.ok /\ last.ws.col = 0 /\ last.ws.row = 0
  /\ last.width0 > 0 /\ last.height0 > 0
  /\ term.width = 0 /\ term.height = 0
  /\ out = <<>>

-----------------------------------------------------------------------------
(* Writes when the output buffer cannot be allocated: claim C11            *)
(* (specification Spec)                                                    *)

\* C11 as stated: when the output buffer cannot be allocated, buffering is
\* off, and every write entry point, the formatted write included, still
\* delivers its bytes to the sink through the direct write path.
C11_NoOutputLost ==
  /\ (last.op = "start_buffered" /\ ~last.mem /\ ~term.buf.alloc) => ~term.buffered
  /\ (last.op = "write" /\ ~term.buf.alloc /\ last.io)
       => Flatten(out) = Delivered(last.s)
  /\ (last.op = "writef" /\ ~last.mem /\ ~term.buf.alloc /\ last.io)
       => Flatten(out) = Delivered(last.s)

-----------------------------------------------------------------------------
(* Failing writes: claims C12 and C13 (specification Spec)                 *)

\* a physical write was attempted during the last call and write(2) failed
WriteFailed == out # <<>> /\ ~last.io

\* C12 as stated: when the flush of end_buffering fails, end_buffering
\* returns failure, and the buffer is empty and buffering is off afterwards;
\* end_buffering while buffering is off writes nothing and returns success.
C12_FlushFailureReported ==
  /\ (last.op = "end_buffered" /\ last.buffered0 /\ WriteFailed)
       => (~ret /\ term.buf.data = <<>> /\ ~term.buffered)
  /\ (last.op = "end_buffered" /\ ~last.buffered0)
       => (out = <<>> /\ ret)

\* C13 as stated: whenever a physical write fails during an unbuffered
\* write(string), write(bytes, length) or write(format, args), the call
\* returns failure, with color enabled and with color disabled.
C13_WriteFailureReported ==
  (last.op \in {"write", "writef"} /\ ~last.buffered0 /\ WriteFailed) => ~ret

-----------------------------------------------------------------------------
(* Toggling color inside a buffering cycle: claim C14 (specification Spec) *)

\* C14 as stated: a toggle affects only the writes issued after it: at
\* end_buffering the sink receives the bytes of each write of the cycle as
\* the color flag at the time of that write lets them through.
C14_ToggleLeavesBuffered ==
  (last.op = "end_buffered" /\ last.buffered0) => Flatten(out) = cyc.issued

\* C14 as amended: the toggle only sets the flag: it writes nothing and
\* leaves the buffered bytes as they are; the flag is read when the buffer is
\* flushed: end_buffering delivers the bytes of the whole cycle with their
\* color sequences when color is enabled at that time, and without them when
\* it is disabled at that time.
C14_FlagReadAtFlush ==
  /\ (last.op = "enable_color")
       => /\ term.nocolor = ~last.enable
          /\ out = <<>>
          /\ (term.buffered /\ cyc.open) => term.buf.data = cyc.logical
  /\ (last.op = "end_buffered" /\ last.buffered0)
       => Flatten(out) = Delivered(cyc.logical)

\* a color sequence buffered while color was enabled is dropped by a flush
\* made after color was disabled
C14_Witness ==
  /\ last.op = "end_buffered" /\ last.buffered0
  /\ term.nocolor
  /\ cyc.issued = Red \o <<"a">>
  /\ out = << <<"a">> >>

-----------------------------------------------------------------------------
(* The interactive capability query: claim C15 (specification SpecTerm)    *)

\* strstr(haystack, needle) != NULL
strstr(haystack, needle) ==
  \E i \in 0..(Len(haystack) - Len(needle)) : Sub(haystack, i, Len(needle)) = needle

\* the string literal searched by term_is_interactive
EditDenyList ==
  <<"d", "u", "m", "b", "|", "D", "U", "M", "B", "|", "c", "o", "n", "s", "2", "5", "|", "C", "O", "N", "S", "2", "5", "|", "e", "m", "a", "c", "s", "|", "E", "M", "A", "C", "S">>

\* getenv("TERM"): NULL when the variable is unset
NoTerm == [null |-> TRUE, s |-> <<>>]

\* term_is_interactive; eterm is the value of TERM
term_is_interactive(w, eterm) ==
  IF ~eterm.null /\ strstr(EditDenyList, eterm.s) THEN FALSE ELSE TRUE

\* values of TERM: unset, empty, the listed identifiers, other identifiers,
\* identifiers that contain a listed one, and pieces of the listed ones
TermValues ==
  {NoTerm} \cup {[null |-> FALSE, s |-> v] : v \in
    {<<>>,
     <<"d", "u", "m", "b">>,
     <<"D", "U", "M", "B">>,
     <<"c", "o", "n", "s", "2", "5">>,
     <<"C", "O", "N", "S", "2", "5">>,
     <<"e", "m", "a", "c", "s">>,
     <<"E", "M", "A", "C", "S">>,
     <<"D", "u", "m", "b">>,
     <<"x", "t", "e", "r", "m">>,
     <<"v", "t", "1", "0", "0">>,
     <<"x", "e", "m", "a", "c", "s">>,
     <<"d", "u", "m", "b", "e", "r">>,
     <<"d", "u">>,
     <<"m", "a", "c", "s">>,
     <<"2", "5">>,
     <<"|">>,
     <<"b", "|", "D">>}}

IsInteractive ==
  /\ term.alive
  /\ \E eterm \in TermValues :
       /\ Leaves([w |-> World(TRUE, TRUE, NoWs, <<>>),
                  ret |-> term_is_interactive(World(TRUE, TRUE, NoWs, <<>>), eterm)])
       /\ last' = [op |-> "is_interactive", eterm |-> eterm]
       /\ cyc' = CycNow
       /\ rawg' = RawNow

NextTerm ==
  \/ IsInteractive
  \/ EnableColor
  \/ StartBuffered

SpecTerm == Init /\ [][NextTerm]_vars

\* the identifiers of the deny list
DenyListed ==
  {<<"d", "u", "m", "b">>,
   <<"D", "U", "M", "B">>,
   <<"c", "o", "n", "s", "2", "5">>,
   <<"C", "O", "N", "S", "2", "5">>,
   <<"e", "m", "a", "c", "s">>,
   <<"E", "M", "A", "C", "S">>}

\* C15 as stated: the query returns false exactly when TERM is one of the
\* deny-listed identifiers; for every other value, the empty string and the
\* proper substrings of a listed identifier included, and when TERM is unset,
\* it returns true.
C15_DenyListExact ==
  (last.op = "is_interactive")
    => (ret = ~(~last.eterm.null /\ last.eterm.s \in DenyListed))

-----------------------------------------------------------------------------
(* The Windows console emulation: claims C16 and C18 (specification        *)
(* SpecEmu: unbuffered writes on the Windows build)                        *)

BlueBack == RP_CSI \o <<"4", "4", "m">>

\* CSI sequences whose final byte is not a command of term_write_esc
UnknownSeqs ==
  {RP_CSI \o <<"5", "q">>, RP_CSI \o <<"1", ";", "2", "R">>, RP_CSI \o <<"4", "h">>}

\* CSI sequences of a command whose parameter text is not a number, each with
\* the same command without parameter text
MalformedSeqs ==
  {[bad |-> RP_CSI \o <<"?", "5", "A">>, bare |-> RP_CSI \o <<"A">>],
   [bad |-> RP_CSI \o <<";", "5", "H">>, bare |-> RP_CSI \o <<"H">>],
   [bad |-> RP_CSI \o <<";", "m">>,      bare |-> RP_CSI \o <<"m">>]}

\* a sequence between two pieces of text
InText(q) == <<"a">> \o q \o <<"b">>

\* strings written through the emulation path: text with attribute sequences,
\* and text around unknown and malformed sequences
EmuTexts ==
  {RedHelloReset, BlueBack}
    \cup {InText(q) : q \in UnknownSeqs}
    \cup {InText(m.bad) : m \in MalformedSeqs}

InitEmu ==
  \E c0 \in WinConsoles, nocolor \in BOOLEAN :
    Created("win", c0, Ansi0, nocolor, TRUE, NoWs, <<>>, <<>>, <<>>)

NextEmu ==
  \/ Write(EmuTexts)
  \/ EnableColor

SpecEmu == InitEmu /\ [][NextEmu]_vars

\* an unbuffered write of s on a console, with working WriteConsoleA
Emulated(s) ==
  /\ last.op = "write" /\ ~last.buffered0 /\ last.s = s
  /\ last.io /\ con.valid

\* the foreground color bits and the remaining bits of an attribute word
ForeColor(attr) == attr % 16
OtherBits(attr) == attr - (attr % 16)

\* C16: ESC[31m HELLO ESC[0m written with color enabled through the emulation
\* path: the foreground becomes red with the other attribute bits unchanged,
\* then the text HELLO is written (with that attribute), then the attribute
\* word is the default attribute captured when the terminal was created.
C16_RedHelloDefault ==
  (Emulated(RedHelloReset) /\ ~term.nocolor)
    => /\ out = <<Hello>>
       /\ ForeColor(con.text_attr) = FOREGROUND_RED
       /\ OtherBits(con.text_attr) = OtherBits(last.con0.attr)
       /\ con.attr = term.hcon_default_attr

\* HELLO written in red on a console whose attribute word was neither red
\* nor the default before the write
C16_Witness ==
  /\ Emulated(RedHelloReset) /\ ~term.nocolor
  /\ out = <<Hello>>
  /\ ForeColor(last.con0.attr) # FOREGROUND_RED
  /\ last.con0.attr # term.hcon_default_attr
  /\ con.text_attr # last.con0.attr
  /\ con.attr = term.hcon_default_attr

\* the world before the last write call
Before ==
  [World(TRUE, TRUE, NoWs, <<>>) EXCEPT
     !.con = last.con0, !.t.hcon_save_cursor = last.save0]

\* what the last write left of the console and the handle is what writing s
\* instead would have left
ConsoleAsAfter(s) ==
  /\ con = term_write(Before, s).w.con
  /\ term = term_write(Before, s).w.t

\* C18 as stated: a CSI sequence with an unknown final byte or with malformed
\* parameter text changes no console state, writes none of its bytes and does
\* not make the write fail; the text around it is written.
C18_BadSequenceIgnored ==
  \A q \in UnknownSeqs \cup {m.bad : m \in MalformedSeqs} :
    Emulated(InText(q))
      => /\ out = << <<"a">>, <<"b">> >>
         /\ ret
         /\ ConsoleAsAfter(<<"a", "b">>)

\* C18 as amended: a sequence with an unknown final byte changes no console
\* state; a sequence of a known command with malformed parameter text is
\* executed with the default parameters, as the command without parameter
\* text is; neither writes any of its bytes nor makes the write fail, and the
\* text around it is written.
C18_BadParamsDefault ==
  /\ \A q \in UnknownSeqs :
       Emulated(InText(q))
         => /\ out = << <<"a">>, <<"b">> >>
            /\ ret
            /\ ConsoleAsAfter(<<"a", "b">>)
  /\ \A m \in MalformedSeqs :
       Emulated(InText(m.bad))
         => /\ out = << <<"a">>, <<"b">> >>
            /\ ret
            /\ ConsoleAsAfter(InText(m.bare))

\* ESC[;m between two pieces of text sets the attribute word back to the default
C18_Witness ==
  /\ Emulated(InText(RP_CSI \o <<";", "m">>))
  /\ out = << <<"a">>, <<"b">> >>
  /\ last.con0.attr # term.hcon_default_attr
  /\ con.attr = term.hcon_default_attr
  /\ con.text_attr = term.hcon_default_attr

-----------------------------------------------------------------------------
(* The cursor position reply parser: claim C17 (specification SpecDim)     *)

\* C17 as stated: a reply to the first position request that is not exactly
\* ESC [ row ; col R (another terminating byte after the digits included), or
\* no reply, aborts the probe: no cursor move and no second request follow
\* the request, and no size is found.
C17_OnlyExactReply ==
  (last.op = "update_dim" /\ ~last.ws.ok /\ ~last.buffered0 /\ last.io
     /\ Head(last.plan) # "ok")
    => (out = <<CursorRequest>> /\ term.width = 0 /\ term.height = 0)

-----------------------------------------------------------------------------
(* Cursor moves and the cursor save slot on the console: claims C19, C20   *)
(* (specification SpecCur)                                                 *)

\* parameter texts of the move commands with the number they stand for
\* (a missing parameter stands for 1); BigArg is beyond every edge
BigArg == 9

MoveArgs ==
  {[text |-> <<>>, n |-> 1]}
    \cup {[text |-> FormatInt(n), n |-> n] : n \in {0, 2, BigArg}}

\* the relative and single-parameter move commands
MoveCmds ==
  {[s |-> RP_CSI \o a.text \o <<f>>, f |-> f, n |-> a.n] :
     f \in {"A", "B", "C", "D", "E", "F", "G"}, a \in MoveArgs}

\* ESC [ row ; col H with both numbers, the row only, or no parameter
GotoCmds ==
  {[s |-> RP_CSI \o FormatInt(row) \o <<";">> \o FormatInt(col) \o <<"H">>,
    row |-> row, col |-> col] : row \in {0, 1, 2, BigArg}, col \in {0, 2, BigArg}}
    \cup {[s |-> RP_CSI \o <<"H">>, row |-> 1, col |-> 1],
          [s |-> RP_CSI \o <<"2", "H">>, row |-> 2, col |-> 1]}

Goto(p) == RP_CSI \o FormatInt(p.row) \o <<";">> \o FormatInt(p.col) \o <<"H">>
SaveCursor == RP_CSI \o <<"s">>
RestoreCursor == RP_CSI \o <<"u">>

LastCorner == [row |-> TermRows, col |-> TermCols]

\* save at p, move to q, restore
SaveRestore(p, q) == Goto(p) \o SaveCursor \o Goto(q) \o RestoreCursor

\* save at p, save again at q, move away, restore
SaveTwice(p, q) ==
  Goto(p) \o SaveCursor \o Goto(q) \o SaveCursor
    \o Goto([row |-> 1, col |-> TermCols]) \o RestoreCursor

CurTexts ==
  {m.s : m \in MoveCmds} \cup {g.s : g \in GotoCmds}
    \cup {SaveRestore(p, LastCorner) : p \in Positions}
    \cup {SaveTwice(LastCorner, q) : q \in Positions}

InitCur ==
  \E c0 \in WinConsoles :
    Created("win", c0, Ansi0, FALSE, TRUE, NoWs, <<>>, <<>>, <<>>)

NextCur == Write(CurTexts)

SpecCur == InitCur /\ [][NextCur]_vars

\* the 1-based position a move command asks for, from the position before it
MoveTarget(m, c0) ==
  CASE m.f = "A" -> [row |-> c0.Y + 1 - m.n, col |-> c0.X + 1]
    [] m.f = "B" -> [row |-> c0.Y + 1 + m.n, col |-> c0.X + 1]
    [] m.f = "C" -> [row |-> c0.Y + 1, col |-> c0.X + 1 + m.n]
    [] m.f = "D" -> [row |-> c0.Y + 1, col |-> c0.X + 1 - m.n]
    [] m.f = "E" -> [row |-> c0.Y + 1 + m.n, col |-> 1]
    [] m.f = "F" -> [row |-> c0.Y + 1 - m.n, col |-> 1]
    [] m.f = "G" -> [row |-> c0.Y + 1, col |-> m.n]

\* the cursor is at the 1-based position p clamped to the console buffer
CursorAtClamped(p) ==
  /\ con.X = Clamp(p.col, 1, TermCols) - 1
  /\ con.Y = Clamp(p.row, 1, TermRows) - 1

CursorAt(p) == con.X = p.col - 1 /\ con.Y = p.row - 1

\* C19: after cursor move commands (H, A, B, C, D, E, F, G) with any
\* parameters the console cursor is inside the console buffer, and each
\* command leaves it at its target clamped to the edges: beyond an edge to
\* that edge, at or below 0 to the first row or column.
C19_CursorClamped ==
  /\ con.X \in 0..(TermCols - 1)
  /\ con.Y \in 0..(TermRows - 1)
  /\ \A m \in MoveCmds : Emulated(m.s) => CursorAtClamped(MoveTarget(m, last.con0))
  /\ \A g \in GotoCmds : Emulated(g.s) => CursorAtClamped(g)

\* a move right beyond the last column ended on the last column, and a move
\* up beyond the first row ended on the first row
C19_Witness ==
  \/ /\ Emulated(RP_CSI \o FormatInt(BigArg) \o <<"C">>)
     /\ last.con0.X + 1 + BigArg > TermCols /\ con.X = TermCols - 1
  \/ /\ Emulated(RP_CSI \o FormatInt(2) \o <<"A">>)
     /\ last.con0.Y + 1 - 2 <= 0 /\ con.Y = 0

\* C20 as stated: a save at any position p, the first column included,
\* followed by a move and a restore leaves the cursor at p, and after two
\* saves the restore returns to the position of the second.
C20_RestoreReturns ==
  /\ \A p \in Positions : Emulated(SaveRestore(p, LastCorner)) => CursorAt(p)
  /\ \A q \in Positions : Emulated(SaveTwice(LastCorner, q)) => CursorAt(q)

-----------------------------------------------------------------------------
(* Line erase on the console against the ANSI terminal: claim C21          *)
(* (specification SpecErase)                                               *)

\* parameter texts of ESC [ Ps K with the mode they select
EraseModes ==
  {[text |-> <<>>, n |-> 0], [text |-> <<"0">>, n |-> 0],
   [text |-> <<"1">>, n |-> 1], [text |-> <<"2">>, n |-> 2]}

\* move to p, then erase in line with the given parameter text
EraseAt(p, text) == Goto(p) \o RP_CSI \o text \o <<"K">>

EraseTexts == {EraseAt(p, m.text) : p \in Positions, m \in EraseModes}

InitErase ==
  \E c0 \in WinConsoles :
    Created("win", c0, Ansi0, FALSE, TRUE, NoWs, <<>>, <<>>, <<>>)

NextErase == Write(EraseTexts)

SpecErase == InitErase /\ [][NextErase]_vars

\* the cells an ANSI terminal blanks for EL (ESC [ Ps K) with the cursor at
\* the 1-based position p: Ps = 0 from the cursor to the end of the line,
\* Ps = 1 from the start of the line to the cursor, the cursor's cell
\* included, Ps = 2 the whole line
AnsiEraseLine(mode, p) ==
  CASE mode = 0 -> [X |-> p.col - 1, Y |-> p.row - 1, length |-> TermCols - (p.col - 1)]
    [] mode = 1 -> [X |-> 0, Y |-> p.row - 1, length |-> p.col]
    [] mode = 2 -> [X |-> 0, Y |-> p.row - 1, length |-> TermCols]

\* C21 as stated: for every cursor column, ESC[K and ESC[0K blank from the
\* cursor to the end of the line, ESC[1K from the start of the line to the
\* cursor and ESC[2K the whole line, as an ANSI terminal does, and the
\* cursor stays where it was.
C21_EraseLikeAnsi ==
  \A p \in Positions, m \in EraseModes :
    Emulated(EraseAt(p, m.text)) => (con.fill = AnsiEraseLine(m.n, p) /\ CursorAt(p))

-----------------------------------------------------------------------------
(* Nothing pending outside a buffering cycle: claim C22 (specification Spec) *)

\* C22: whenever buffering is off, the output buffer is unallocated or
\* empty, after every begin_buffering, end_buffering, write and formatted
\* write, a failed flush included.
C22_NothingPendingOutside ==
  (term.alive /\ ~term.buffered) => (~term.buf.alloc \/ term.buf.data = <<>>)

\* end_buffering attempted the flush of pending bytes, the write failed, and
\* the allocated buffer is empty with buffering off
C22_Witness ==
  /\ last.op = "end_buffered" /\ last.buffered0 /\ WriteFailed
  /\ ~term.buffered /\ term.buf.alloc /\ term.buf.data = <<>>

-----------------------------------------------------------------------------
(* The formatted write and the buffering flag: claim C23 (specification Spec) *)

\* C23 as stated: a formatted write leaves the buffering flag as it found
\* it; while buffering is on it appends its bytes to the buffer and makes no
\* physical write; while buffering is off it writes its own bytes out before
\* it returns and leaves nothing pending.
C23_FormattedKeepsFlag ==
  last.op = "writef" =>
    /\ term.buffered = last.buffered0
    /\ last.buffered0 => (out = <<>> /\ term.buf.data = last.pending0 \o last.s)
    /\ (~last.buffered0 /\ last.io)
         => (Flatten(out) = Delivered(last.s) /\ term.buf.data = <<>>)

-----------------------------------------------------------------------------
(* The probe's writes reach the sink before the replies are read: claim C24 *)
(* (specification SpecDim)                                                  *)

\* the physical writes of a fallback probe: the request alone when the first
\* reply fails, otherwise request, move to (999,999), request, move back
ProbeWritten ==
  \/ out = <<CursorRequest>>
  \/ /\ Len(out) = 4
     /\ out[1] = CursorRequest
     /\ out[2] = vprintf("%d;%dH", <<999, 999>>)
     /\ out[3] = CursorRequest
     /\ \E p \in Positions : out[4] = vprintf("%d;%dH", <<p.row, p.col>>)

\* C24 as stated: in the fallback probe every position request and every
\* cursor move is physically written before the next reply is read, whether
\* or not buffering is on: the call's writes are the probe's commands in
\* order, and none of them is left in the output buffer.
C24_ProbeWrittenBeforeRead ==
  (last.op = "update_dim" /\ ~last.ws.ok)
    => (ProbeWritten /\ term.buf.data = last.pending0)

-----------------------------------------------------------------------------
(* The direct write loop, iteration by iteration, with any boundary scanner *)
(* that returns 1..remaining before the end and 0 at the end: claim C25     *)
(* (specification SpecLoop)                                                 *)

LoopBytes == {"a", ESC, "[", "m", "\n"}

RECURSIVE StringsUpTo(_)
StringsUpTo(n) ==
  IF n = 0 THEN {<<>>}
  ELSE StringsUpTo(n - 1)
         \cup {Append(s, b) : s \in {x \in StringsUpTo(n - 1) : Len(x) = n - 1},
                              b \in LoopBytes}

LoopInputs == StringsUpTo(MaxLoopLen)

\* the bytes that end the bulk run: ESC in the strip variant, every control
\* byte in the emulation variant
RunStops == IF plat = "win" THEN CtrlBytes ELSE {ESC}

RECURSIVE InnerWhile(_, _)
\* the inner while from position q: every outcome that some scanner allows,
\* as the position where the run ends and the unit length found there
InnerWhile(s, q) ==
  IF q >= Len(s) THEN {[at |-> q, next |-> 0]}
  ELSE IF s[q + 1] \in RunStops THEN {[at |-> q, next |-> n] : n \in 1..(Len(s) - q)}
  ELSE UNION {InnerWhile(s, q + n) : n \in 1..(Len(s) - q)}

\* term_write_console of the build
WriteChunk(w, chunk) ==
  IF chunk = <<>> THEN w
  ELSE IF w.plat = "win" THEN term_write_console_win(w, chunk).w
  ELSE term_write_console(w, chunk).w

\* the unit at the position: an escape sequence or a single unit
HandleUnit(w, chunk) ==
  IF Len(chunk) > 1 /\ chunk[1] = ESC
    THEN IF w.plat = "win" THEN term_write_esc_win(w, chunk)
         ELSE term_write_esc(w, chunk).w
    ELSE WriteChunk(w, chunk)

\* faulty variant: the position is not moved past the unit
AfterUnit_stay(at, next) == at

\* pos += next
AfterUnit(at, next) == at + next

\* the bytes from .. from+n-1 were handed to a write
Mark(seen, from, n) ==
  [i \in 1..Len(seen) |-> IF i > from /\ i <= from + n THEN seen[i] + 1 ELSE seen[i]]

\* the world the running call has reached
Running == [World(TRUE, TRUE, NoWs, <<>>) EXCEPT !.out = out]

Reaches(w) ==
  /\ plat' = plat
  /\ term' = w.t
  /\ con' = w.con
  /\ ansi' = w.ansi
  /\ out' = w.out
  /\ UNCHANGED <<cyc, rawg>>

\* term_write_direct is entered with s: pos = 0 (one call is followed from
\* its entry to its return)
EnterLoop ==
  /\ term.alive /\ ~term.buffered
  /\ frame.pc = "idle"
  /\ plat = "posix" => term.nocolor
  /\ \E s \in LoopInputs :
       /\ frame' = [pc |-> "test", s |-> s, pos |-> 0, iter |-> 0,
                    seen |-> [i \in 1..Len(s) |-> 0]]
       /\ last' = [op |-> "write_direct", s |-> s]
  /\ Reaches(IF plat = "win"
               THEN term_cursor_visible(World(TRUE, TRUE, NoWs, <<>>), FALSE)
               ELSE World(TRUE, TRUE, NoWs, <<>>))
  /\ ret' = ret

\* one iteration of the outer while
Iterate ==
  /\ frame.pc = "test"
  /\ frame.pos < Len(frame.s)
  /\ \E r \in InnerWhile(frame.s, frame.pos) :
       \E w1 \in {WriteChunk(Running, Sub(frame.s, frame.pos, r.at - frame.pos))},
          seen1 \in {Mark(frame.seen, frame.pos, r.at - frame.pos)} :
         IF r.next <= 0
           THEN /\ frame' = [frame EXCEPT !.pc = "exit", !.pos = r.at,
                                          !.seen = seen1, !.iter = @ + 1]
                /\ Reaches(w1)
           ELSE /\ frame' = [frame EXCEPT !.pos = AfterUnit(r.at, r.next),
                                          !.seen = Mark(seen1, r.at, r.next),
                                          !.iter = @ + 1]
                /\ Reaches(HandleUnit(w1, Sub(frame.s, r.at, r.next)))
  /\ UNCHANGED <<ret, last>>

\* the loop is left, by its condition or by break: return (pos == len)
LeaveLoop ==
  /\ frame.pc = "exit" \/ (frame.pc = "test" /\ frame.pos >= Len(frame.s))
  /\ frame' = [frame EXCEPT !.pc = "returned"]
  /\ Reaches(IF plat = "win" THEN term_cursor_visible(Running, TRUE) ELSE Running)
  /\ ret' = (frame.pos = Len(frame.s))
  /\ UNCHANGED last

InitLoop ==
  \/ Created("posix", Console0, Ansi0, TRUE, TRUE, [ok |-> TRUE, col |-> TermCols, row |-> TermRows],
             <<>>, <<>>, <<>>)
  \/ \E c0 \in {c \in WinConsoles : c.valid} :
       Created("win", c0, Ansi0, FALSE, TRUE, NoWs, <<>>, <<>>, <<>>)

NextLoop ==
  \/ EnterLoop
  \/ Iterate
  \/ LeaveLoop

\* the loop is sequential code: an iteration or the return that can be taken
\* is taken
SpecLoop ==
  InitLoop /\ [][NextLoop]_vars /\ WF_vars(Iterate) /\ WF_vars(LeaveLoop)

\* every byte before pos was handed to a write once, no byte from pos on
HandledOnceUpTo(n) ==
  \A i \in 1..Len(frame.seen) : frame.seen[i] = IF i <= n THEN 1 ELSE 0

LoopProgress ==
  /\ frame.pos <= Len(frame.s)
  /\ HandledOnceUpTo(frame.pos)
  /\ frame.pc = "returned" => (frame.pos = Len(frame.s) /\ ret)

\* C25: with a scanner that returns a length between 1 and the number of
\* remaining bytes before the end and 0 at the end, the direct write loop of
\* both variants moves its position forward in every iteration, hands every
\* byte to a write exactly once, ends for every input, and ends with the
\* position equal to the input length (the assertion pos == len).
C25_LoopCompletes ==
  /\ []LoopProgress
  /\ [][(frame.pc = "test" /\ frame'.pc \in {"test", "exit"}) => frame'.pos > frame.pos]_vars
  /\ (frame.pc = "test") ~> (frame.pc = "returned")

\* a call with an input of full length that holds an escape byte returned
\* after more than one iteration
C25_Witness ==
  /\ frame.pc = "returned" /\ frame.iter >= 2
  /\ Len(frame.s) = MaxLoopLen /\ \E i \in 1..Len(frame.s) : frame.s[i] = ESC
  /\ frame.pos = Len(frame.s)

====
